---- MODULE Spec2Model ----
(***************************************************************************)
(* Order aggregate, Money, the in-memory order repository, the fake        *)
(* payment gateway and PayOrderUseCase.execute.                            *)
(*                                                                         *)
(* One Order object is followed.  The caller keeps a reference to it, so   *)
(* the Order methods can be called on it at any time; the repository keeps *)
(* references too (get_by_id hands back the stored object itself), so the  *)
(* order "held by the store" is the same object.  Decimal amounts are      *)
(* integers, datetime.now() is the token Now, uuid4() values are the       *)
(* strings of OrderIds / ProductIds.  product_name, customer_id and        *)
(* created_at are never read by any operation and are left out.            *)
(* The repository's delete/clear/count test helpers are not modelled.      *)
(* Money arithmetic on its own is followed in the variable money under     *)
(* SpecMoney.                                                              *)
(***************************************************************************)
EXTENDS Integers, Sequences, FiniteSets, TLC

VARIABLES order, repo, gateway, last, money

vars == <<order, repo, gateway, last, money>>

-----------------------------------------------------------------------------
(* Bounds *)

\* largest Decimal amount offered as a unit price (0 is offered too)
MaxAmount == 1
\* largest quantity offered to add_line / update_quantity
MaxQuantityArg == 1
\* cap on the absolute value of a line's quantity (add_line merges move it
\* without limit)
MaxLineQuantity == 2
\* cap on the revision counter
MaxVersion == 3

-----------------------------------------------------------------------------
(* Values *)

None == "None"
Now == "now"

PENDING == "pending"
PAID == "paid"
CANCELLED == "cancelled"

TheOrder == "o1"
OrderIds == {"o1", "o2"}
ProductIds == {"p1", "p2"}
Currencies == {"USD", "EUR"}
Amounts == 0..MaxAmount
\* quantities offered to add_line / update_quantity: invalid (-1, 0) and valid
Quantities == -1..MaxQuantityArg
TxnIds == {"TXN_A", "TXN_B"}
\* random.random() in [0,1) and success_rate in [0,1], both in quarters
RandomDraws == {0, 2}
\* the gateways the tests build: FakePaymentGateway(success_rate=1.0) and
\* FakePaymentGateway(success_rate=0.0, simulate_failure=True)
GatewayConfigs ==
    {[success_rate |-> 4, simulate_failure |-> FALSE],
     [success_rate |-> 0, simulate_failure |-> TRUE]}

NoExc == [type |-> None, msg |-> ""]
Exc(t, m) == [type |-> t, msg |-> m]

DomainExceptionTypes ==
    {"EmptyOrderError", "OrderAlreadyPaidError",
     "OrderCannotBeModifiedError", "InvalidOrderLineError"}

IsDomainException(e) == e.type \in DomainExceptionTypes

-----------------------------------------------------------------------------
(* Money *)

\* Money(amount, currency): __post_init__ rejects a negative amount
Money(amount, currency) ==
    IF amount < 0
    THEN [exc |-> Exc("ValueError", "Amount cannot be negative"), val |-> None]
    ELSE [exc |-> NoExc, val |-> [amount |-> amount, currency |-> currency]]

\* variant of __add__ without the currency check
MoneyAdd_any_currency(a, b) == Money(a.amount + b.amount, a.currency)

\* Money.__add__
MoneyAdd(a, b) ==
    IF a.currency # b.currency
    THEN [exc |-> Exc("ValueError",
                      "Cannot add different currencies: " \o a.currency
                          \o " and " \o b.currency),
          val |-> None]
    ELSE Money(a.amount + b.amount, a.currency)

\* Money.__mul__
MoneyMul(a, quantity) == Money(a.amount * quantity, a.currency)

-----------------------------------------------------------------------------
(* OrderLine *)

\* OrderLine.__post_init__
OrderLinePostInit(price, quantity) ==
    IF quantity <= 0
    THEN Exc("InvalidOrderLineError", "Quantity must be positive")
    ELSE IF price.amount <= 0
    THEN Exc("InvalidOrderLineError", "Price must be positive")
    ELSE NoExc

OrderLine(product_id, price, quantity) ==
    [product_id |-> product_id, price |-> price, quantity |-> quantity]

\* variant of subtotal that forgets the quantity
subtotal_unit_price(line) == Money(line.price.amount, line.price.currency)

\* OrderLine.subtotal
subtotal(line) == MoneyMul(line.price, line.quantity)

-----------------------------------------------------------------------------
(* Order *)

\* Order() : dataclass defaults and __post_init__
NewOrder ==
    [id |-> TheOrder, lines |-> <<>>, status |-> PENDING, paid_at |-> None,
     version |-> 0]

Ok(o) == [order |-> o, exc |-> NoExc]
Raise(o, e) == [order |-> o, exc |-> e]

HasProduct(ls, product_id) ==
    \E i \in 1..Len(ls) : ls[i].product_id = product_id

\* index of the first line the "for line in self.lines" loop matches
FirstIndex(ls, product_id) ==
    CHOOSE i \in 1..Len(ls) :
        /\ ls[i].product_id = product_id
        /\ \A j \in 1..(i - 1) : ls[j].product_id # product_id

\* [line for line in self.lines if line.product_id != product_id]
WithoutProduct(ls, product_id) ==
    LET Keep(line) == line.product_id # product_id
    IN  SelectSeq(ls, Keep)

\* variant of _check_modifiable that tests the wrong status
check_modifiable_cancelled_only(o) ==
    IF o.status = CANCELLED
    THEN Exc("OrderCannotBeModifiedError", "Cannot modify paid order")
    ELSE NoExc

\* Order._check_modifiable
check_modifiable(o) ==
    IF o.status = PAID
    THEN Exc("OrderCannotBeModifiedError", "Cannot modify paid order")
    ELSE NoExc

\* variant of add_line that appends the new line before validating it
add_line_validates_after(o, product_id, price, quantity) ==
    IF check_modifiable(o) # NoExc THEN Raise(o, check_modifiable(o))
    ELSE IF HasProduct(o.lines, product_id)
    THEN LET i == FirstIndex(o.lines, product_id)
         IN  Ok([o EXCEPT !.lines[i].quantity = @ + quantity,
                          !.version = @ + 1])
    ELSE LET appended ==
                 [o EXCEPT !.lines = Append(@, [product_id |-> product_id,
                                                price |-> price,
                                                quantity |-> quantity])]
         IN  IF OrderLinePostInit(price, quantity) # NoExc
             THEN Raise(appended, OrderLinePostInit(price, quantity))
             ELSE Ok([appended EXCEPT !.version = @ + 1])

\* variant of add_line without the search for an existing line
add_line_always_appends(o, product_id, price, quantity) ==
    IF check_modifiable(o) # NoExc THEN Raise(o, check_modifiable(o))
    ELSE IF OrderLinePostInit(price, quantity) # NoExc
    THEN Raise(o, OrderLinePostInit(price, quantity))
    ELSE Ok([o EXCEPT !.lines = Append(@, OrderLine(product_id, price, quantity)),
                      !.version = @ + 1])

\* Order.add_line
add_line(o, product_id, price, quantity) ==
    IF check_modifiable(o) # NoExc THEN Raise(o, check_modifiable(o))
    ELSE IF HasProduct(o.lines, product_id)
    THEN LET i == FirstIndex(o.lines, product_id)
         IN  Ok([o EXCEPT !.lines[i].quantity = @ + quantity,
                          !.version = @ + 1])
    ELSE IF OrderLinePostInit(price, quantity) # NoExc
    THEN Raise(o, OrderLinePostInit(price, quantity))
    ELSE Ok([o EXCEPT !.lines = Append(@, OrderLine(product_id, price, quantity)),
                      !.version = @ + 1])

\* variant of remove_line that counts a revision even when nothing matched
remove_line_always_counts(o, product_id) ==
    IF check_modifiable(o) # NoExc THEN Raise(o, check_modifiable(o))
    ELSE Ok([o EXCEPT !.lines = WithoutProduct(@, product_id),
                      !.version = @ + 1])

\* Order.remove_line
remove_line(o, product_id) ==
    IF check_modifiable(o) # NoExc THEN Raise(o, check_modifiable(o))
    ELSE LET kept == WithoutProduct(o.lines, product_id)
         IN  IF Len(kept) # Len(o.lines)
             THEN Ok([o EXCEPT !.lines = kept, !.version = @ + 1])
             ELSE Ok([o EXCEPT !.lines = kept])

\* variant of update_quantity without the "quantity <= 0" branch
update_quantity_always_sets(o, product_id, quantity) ==
    IF check_modifiable(o) # NoExc THEN Raise(o, check_modifiable(o))
    ELSE IF HasProduct(o.lines, product_id)
    THEN LET i == FirstIndex(o.lines, product_id)
         IN  Ok([o EXCEPT !.lines[i].quantity = quantity, !.version = @ + 1])
    ELSE Raise(o, Exc("ValueError",
                      "Product " \o product_id \o " not found in order"))

\* Order.update_quantity
update_quantity(o, product_id, quantity) ==
    IF check_modifiable(o) # NoExc THEN Raise(o, check_modifiable(o))
    ELSE IF HasProduct(o.lines, product_id)
    THEN LET i == FirstIndex(o.lines, product_id)
             changed == IF quantity <= 0
                        THEN remove_line(o, product_id).order
                        ELSE [o EXCEPT !.lines[i].quantity = quantity]
         IN  Ok([changed EXCEPT !.version = @ + 1])
    ELSE Raise(o, Exc("ValueError",
                      "Product " \o product_id \o " not found in order"))

\* variant of clear_lines that forgets the modifiability guard
clear_lines_unguarded(o) ==
    Ok([o EXCEPT !.lines = <<>>, !.version = @ + 1])

\* Order.clear_lines
clear_lines(o) ==
    IF check_modifiable(o) # NoExc THEN Raise(o, check_modifiable(o))
    ELSE Ok([o EXCEPT !.lines = <<>>, !.version = @ + 1])

RECURSIVE TotalFrom(_, _, _)
\* the "for line in self.lines: total = total + line.subtotal" loop from line i
TotalFrom(ls, i, acc) ==
    IF i > Len(ls) THEN [exc |-> NoExc, val |-> acc]
    ELSE LET s == subtotal(ls[i])
         IN  IF s.exc # NoExc THEN s
             ELSE LET t == MoneyAdd(acc, s.val)
                  IN  IF t.exc # NoExc THEN t
                      ELSE TotalFrom(ls, i + 1, t.val)

\* Order.total
total(o) ==
    IF o.lines = <<>> THEN Money(0, "USD")
    ELSE TotalFrom(o.lines, 1, Money(0, o.lines[1].price.currency).val)

\* variant of pay that forgets the emptiness check
pay_skip_empty(o) ==
    IF o.status = PAID
    THEN Raise(o, Exc("OrderAlreadyPaidError", "Order is already paid"))
    ELSE Ok([o EXCEPT !.status = PAID, !.paid_at = Now, !.version = @ + 1])

\* variant of pay that forgets the already-paid check
pay_allows_repay(o) ==
    IF o.lines = <<>>
    THEN Raise(o, Exc("EmptyOrderError", "Cannot pay empty order"))
    ELSE Ok([o EXCEPT !.status = PAID, !.paid_at = Now, !.version = @ + 1])

\* Order.pay
pay(o) ==
    IF o.lines = <<>>
    THEN Raise(o, Exc("EmptyOrderError", "Cannot pay empty order"))
    ELSE IF o.status = PAID
    THEN Raise(o, Exc("OrderAlreadyPaidError", "Order is already paid"))
    ELSE Ok([o EXCEPT !.status = PAID, !.paid_at = Now, !.version = @ + 1])

\* variant of cancel that forgets the modifiability guard
cancel_unguarded(o) ==
    Ok([o EXCEPT !.status = CANCELLED, !.version = @ + 1])

\* Order.cancel
cancel(o) ==
    IF check_modifiable(o) # NoExc THEN Raise(o, check_modifiable(o))
    ELSE Ok([o EXCEPT !.status = CANCELLED, !.version = @ + 1])

\* Order.is_paid
is_paid(o) == o.status = PAID

\* Order.line_count
line_count(o) == Len(o.lines)

-----------------------------------------------------------------------------
(* InMemoryOrderRepository: a dict from order id to a reference to the     *)
(* Order object.  The only Order object is the variable order, its         *)
(* reference is its id.                                                    *)

\* InMemoryOrderRepository.__init__
EmptyRepo == [k \in {} |-> None]

\* variant of get_by_id that ignores the key and hands back a stored order
get_by_id_any(r, order_id) ==
    IF DOMAIN r # {} THEN r[CHOOSE k \in DOMAIN r : TRUE] ELSE None

\* InMemoryOrderRepository.get_by_id
get_by_id(r, order_id) ==
    IF order_id \in DOMAIN r THEN r[order_id] ELSE None

\* InMemoryOrderRepository.save
save(r, o) ==
    [k \in DOMAIN r \cup {o.id} |-> IF k = o.id THEN o.id ELSE r[k]]

-----------------------------------------------------------------------------
(* FakePaymentGateway *)

\* FakePaymentGateway.__init__
NewGateway(success_rate, simulate_failure) ==
    [success_rate |-> success_rate, simulate_failure |-> simulate_failure,
     transactions |-> <<>>, failures_count |-> 0]

\* TransactionRecord.__init__
TransactionRecord(order_id, amount, transaction_id) ==
    [order_id |-> order_id, amount |-> amount,
     transaction_id |-> transaction_id, status |-> "completed"]

\* variant of charge that generates a second id for its return value
charge_returns_other(g, order_id, amount, draw, txn) ==
    IF g.simulate_failure /\ draw > g.success_rate
    THEN [gateway |-> [g EXCEPT !.failures_count = @ + 1],
          exc |-> Exc("Exception",
                      "Payment gateway declined transaction for order "
                          \o order_id),
          val |-> None]
    ELSE [gateway |-> [g EXCEPT !.transactions =
                           Append(@, TransactionRecord(order_id, amount, txn))],
          exc |-> NoExc,
          val |-> CHOOSE other \in TxnIds : other # txn]

\* FakePaymentGateway.charge; draw is random.random(), txn the generated id
charge(g, order_id, amount, draw, txn) ==
    IF g.simulate_failure /\ draw > g.success_rate
    THEN [gateway |-> [g EXCEPT !.failures_count = @ + 1],
          exc |-> Exc("Exception",
                      "Payment gateway declined transaction for order "
                          \o order_id),
          val |-> None]
    ELSE [gateway |-> [g EXCEPT !.transactions =
                           Append(@, TransactionRecord(order_id, amount, txn))],
          exc |-> NoExc,
          val |-> txn]

-----------------------------------------------------------------------------
(* PayOrderUseCase *)

\* PaymentResult.__init__
PaymentResult(success, order_id, transaction_id, error) ==
    [success |-> success, order_id |-> order_id,
     transaction_id |-> transaction_id, error |-> error]

\* variant with only the catch-all except clause
HandleException_catch_all(order_id, e) ==
    PaymentResult(FALSE, order_id, None, "Payment processing error: " \o e.msg)

\* the two except clauses of PayOrderUseCase.execute
HandleException(order_id, e) ==
    IF IsDomainException(e)
    THEN PaymentResult(FALSE, order_id, None, e.msg)
    ELSE PaymentResult(FALSE, order_id, None,
                       "Payment processing error: " \o e.msg)

\* the classes "except Exception" catches
ExceptionTypes == {"ValueError", "Exception"} \cup DomainExceptionTypes

\* variant of the try block without the catch-all except clause
Escaped_domain_only(e) ==
    IF e = NoExc \/ IsDomainException(e) THEN NoExc ELSE e

\* what leaves the try block of PayOrderUseCase.execute when e is raised in
\* it: nothing when one of the two except clauses catches e
Escaped(e) ==
    IF e = NoExc \/ IsDomainException(e) \/ e.type \in ExceptionTypes
    THEN NoExc
    ELSE e

\* charged lists the arguments of the call of charge, if it is made
Outcome(o, r, g, result, caught, calls, charged) ==
    [order |-> o, repo |-> r, gateway |-> g, result |-> result,
     caught |-> caught, calls |-> calls, charged |-> charged]

\* the arguments of payment_gateway.charge(order_id, amount)
ChargeArgs(order_id, amount) == [order_id |-> order_id, amount |-> amount]

\* one entry of the list of calls execute makes on the order, the repository
\* and the gateway: which call, and whether it raised
Returned(call) == [call |-> call, raised |-> FALSE]
Raised(call) == [call |-> call, raised |-> TRUE]

\* variant of steps 3 to 5 that saves the order whatever charge did
charge_and_save_always(o, r, g, order_id, draw, txn) ==
    LET t == total(o)
        before == <<Returned("get_by_id"), Returned("pay")>>
    IN  IF t.exc # NoExc
        THEN Outcome(o, r, g, HandleException(order_id, t.exc), t.exc,
                     before \o <<Raised("total")>>, <<>>)
        ELSE LET c == charge(g, order_id, t.val, draw, txn)
             IN  IF c.exc # NoExc
                 THEN Outcome(o, save(r, o), c.gateway,
                              HandleException(order_id, c.exc), c.exc,
                              before \o <<Returned("total"), Raised("charge"),
                                          Returned("save")>>,
                              <<ChargeArgs(order_id, t.val)>>)
                 ELSE Outcome(o, save(r, o), c.gateway,
                              PaymentResult(TRUE, order_id, c.val, None),
                              NoExc,
                              before \o <<Returned("total"), Returned("charge"),
                                          Returned("save")>>,
                              <<ChargeArgs(order_id, t.val)>>)

\* PayOrderUseCase.execute, steps 3 to 5: o is the order after order.pay()
charge_and_save(o, r, g, order_id, draw, txn) ==
    LET t == total(o)
        before == <<Returned("get_by_id"), Returned("pay")>>
    IN  IF t.exc # NoExc
        THEN Outcome(o, r, g, HandleException(order_id, t.exc), t.exc,
                     before \o <<Raised("total")>>, <<>>)
        ELSE LET c == charge(g, order_id, t.val, draw, txn)
             IN  IF c.exc # NoExc
                 THEN Outcome(o, r, c.gateway,
                              HandleException(order_id, c.exc), c.exc,
                              before \o <<Returned("total"), Raised("charge")>>,
                              <<ChargeArgs(order_id, t.val)>>)
                 ELSE Outcome(o, save(r, o), c.gateway,
                              PaymentResult(TRUE, order_id, c.val, None),
                              NoExc,
                              before \o <<Returned("total"), Returned("charge"),
                                          Returned("save")>>,
                              <<ChargeArgs(order_id, t.val)>>)

\* PayOrderUseCase.execute.  o is the Order object, r the repository, g the
\* gateway.
execute(o, r, g, order_id, draw, txn) ==
    IF get_by_id(r, order_id) = None
    THEN Outcome(o, r, g,
                 PaymentResult(FALSE, order_id, None,
                               "Order " \o order_id \o " not found"),
                 NoExc, <<Returned("get_by_id")>>, <<>>)
    ELSE LET p == pay(o)
         IN  IF p.exc # NoExc
             THEN Outcome(p.order, r, g, HandleException(order_id, p.exc),
                          p.exc, <<Returned("get_by_id"), Raised("pay")>>, <<>>)
             ELSE charge_and_save(p.order, r, g, order_id, draw, txn)

-----------------------------------------------------------------------------
(* State machine *)

NoResult == PaymentResult(FALSE, None, None, None)

\* what the latest call did: the exception it raised, and for execute the
\* PaymentResult returned, the exception caught and the calls made
Called(op, exc) ==
    [op |-> op, exc |-> exc, result |-> NoResult, caught |-> NoExc,
     calls |-> <<>>, charged |-> <<>>]

Bounded(o) ==
    /\ o.version <= MaxVersion
    /\ \A i \in 1..Len(o.lines) :
           /\ o.lines[i].quantity <= MaxLineQuantity
           /\ o.lines[i].quantity >= 0 - MaxLineQuantity

\* three Money values and the sums computed from them so far, each <<>> or
\* the one outcome of its expression
NewMoneySums(a, b, c) ==
    [a |-> a, b |-> b, c |-> c,
     ab |-> <<>>, ba |-> <<>>, ab_c |-> <<>>, a_bc |-> <<>>]

Init ==
    /\ order = NewOrder
    /\ repo = EmptyRepo
    /\ \E c \in GatewayConfigs :
           gateway = NewGateway(c.success_rate, c.simulate_failure)
    /\ last = Called("new", NoExc)
    /\ money = NewMoneySums(Money(0, "USD").val, Money(0, "USD").val,
                            Money(0, "USD").val)

AddLine ==
    \E product_id \in ProductIds, amount \in Amounts, currency \in Currencies,
       quantity \in Quantities :
        LET r == add_line(order, product_id, Money(amount, currency).val,
                          quantity)
        IN  /\ Bounded(r.order)
            /\ order' = r.order
            /\ last' = Called("add_line", r.exc)
            /\ UNCHANGED <<repo, gateway, money>>

RemoveLine ==
    \E product_id \in ProductIds :
        LET r == remove_line(order, product_id)
        IN  /\ Bounded(r.order)
            /\ order' = r.order
            /\ last' = Called("remove_line", r.exc)
            /\ UNCHANGED <<repo, gateway, money>>

UpdateQuantity ==
    \E product_id \in ProductIds, quantity \in Quantities :
        LET r == update_quantity(order, product_id, quantity)
        IN  /\ Bounded(r.order)
            /\ order' = r.order
            /\ last' = Called("update_quantity", r.exc)
            /\ UNCHANGED <<repo, gateway, money>>

ClearLines ==
    LET r == clear_lines(order)
    IN  /\ Bounded(r.order)
        /\ order' = r.order
        /\ last' = Called("clear_lines", r.exc)
        /\ UNCHANGED <<repo, gateway, money>>

Pay ==
    LET r == pay(order)
    IN  /\ Bounded(r.order)
        /\ order' = r.order
        /\ last' = Called("pay", r.exc)
        /\ UNCHANGED <<repo, gateway, money>>

Cancel ==
    LET r == cancel(order)
    IN  /\ Bounded(r.order)
        /\ order' = r.order
        /\ last' = Called("cancel", r.exc)
        /\ UNCHANGED <<repo, gateway, money>>

Save ==
    /\ repo' = save(repo, order)
    /\ last' = Called("save", NoExc)
    /\ UNCHANGED <<order, gateway, money>>

Execute ==
    \E order_id \in OrderIds, draw \in RandomDraws, txn \in TxnIds :
        LET x == execute(order, repo, gateway, order_id, draw, txn)
        IN  /\ Bounded(x.order)
            /\ order' = x.order
            /\ repo' = x.repo
            /\ gateway' = x.gateway
            /\ last' = [op |-> "execute", exc |-> Escaped(x.caught),
                        result |-> IF Escaped(x.caught) = NoExc
                                   THEN x.result
                                   ELSE NoResult,
                        caught |-> x.caught, calls |-> x.calls,
                        charged |-> x.charged]
            /\ UNCHANGED money

Next ==
    \/ AddLine
    \/ RemoveLine
    \/ UpdateQuantity
    \/ ClearLines
    \/ Pay
    \/ Cancel
    \/ Save
    \/ Execute

Spec == Init /\ [][Next]_vars

\* the Money values Money(amount, currency) builds from the offered amounts
MoneyValues ==
    {Money(amount, currency).val : amount \in Amounts, currency \in Currencies}

\* x + y where x and y are outcomes of earlier expressions: an exception
\* raised by an operand leaves the whole expression, left operand first
Plus(x, y) ==
    IF x.exc # NoExc THEN x
    ELSE IF y.exc # NoExc THEN y
    ELSE MoneyAdd(x.val, y.val)

Value(m) == [exc |-> NoExc, val |-> m]

InitMoney ==
    /\ order = NewOrder
    /\ repo = EmptyRepo
    /\ gateway = NewGateway(4, FALSE)
    /\ last = Called("new", NoExc)
    /\ \E a \in MoneyValues, b \in MoneyValues, c \in MoneyValues :
           money = NewMoneySums(a, b, c)

\* a + b
AddAB ==
    /\ money.ab = <<>>
    /\ money' = [money EXCEPT !.ab = <<MoneyAdd(money.a, money.b)>>]
    /\ UNCHANGED <<order, repo, gateway, last>>

\* b + a
AddBA ==
    /\ money.ba = <<>>
    /\ money' = [money EXCEPT !.ba = <<MoneyAdd(money.b, money.a)>>]
    /\ UNCHANGED <<order, repo, gateway, last>>

\* (a + b) + c
AddAB_C ==
    /\ money.ab_c = <<>>
    /\ money' = [money EXCEPT !.ab_c =
                     <<Plus(MoneyAdd(money.a, money.b), Value(money.c))>>]
    /\ UNCHANGED <<order, repo, gateway, last>>

\* a + (b + c)
AddA_BC ==
    /\ money.a_bc = <<>>
    /\ money' = [money EXCEPT !.a_bc =
                     <<Plus(Value(money.a), MoneyAdd(money.b, money.c))>>]
    /\ UNCHANGED <<order, repo, gateway, last>>

NextMoney ==
    \/ AddAB
    \/ AddBA
    \/ AddAB_C
    \/ AddA_BC

SpecMoney == InitMoney /\ [][NextMoney]_vars

TypeOK ==
    /\ order.status \in {PENDING, PAID, CANCELLED}
    /\ order.paid_at \in {None, Now}
    /\ order.version \in 0..MaxVersion
    /\ DOMAIN repo \subseteq OrderIds
    /\ gateway.failures_count \in Nat
    /\ last.result.success \in BOOLEAN

-----------------------------------------------------------------------------
(* Properties *)

Mutators == {"add_line", "remove_line", "update_quantity", "clear_lines",
             "cancel"}

\* the call execute made, if it made it
CallOf(l, call) == {i \in 1..Len(l.calls) : l.calls[i].call = call}
Made(l, call) == CallOf(l, call) # {}
MadeAndRaised(l, call) ==
    \E i \in CallOf(l, call) : l.calls[i].raised
MadeAndReturned(l, call) ==
    \E i \in CallOf(l, call) : ~l.calls[i].raised

\* C1: once the order is Paid (which only a successful pay() makes it), each
\* later add_line, remove_line, update_quantity, clear_lines and cancel
\* raises OrderCannotBeModifiedError, each later pay() (direct or inside
\* execute) raises OrderAlreadyPaidError, and the order never changes again.
C1_PaidOrderIsFrozen ==
    [][order.status = PAID =>
          /\ order' = order
          /\ last'.op \in Mutators =>
                 last'.exc.type = "OrderCannotBeModifiedError"
          /\ last'.op = "pay" => last'.exc.type = "OrderAlreadyPaidError"
          /\ (last'.op = "execute" /\ Made(last', "pay")) =>
                 last'.caught.type = "OrderAlreadyPaidError"]_vars

C1_Witness ==
    /\ order.status = PAID
    /\ last.op \in Mutators
    /\ last.exc.type = "OrderCannotBeModifiedError"

\* C2: the status changes only from Pending, to Paid by pay and to Cancelled
\* by cancel; a Paid or Cancelled order keeps its status for ever.
C2_OnlyPendingTransitions ==
    [][order'.status # order.status =>
          /\ order.status = PENDING
          /\ \/ order'.status = PAID /\ last'.op \in {"pay", "execute"}
             \/ order'.status = CANCELLED /\ last'.op = "cancel"]_vars

\* C3: a Paid order has at least one line.
C3_PaidHasLines == order.status = PAID => line_count(order) >= 1

C3_Witness ==
    /\ order.status = PAID
    /\ last.op \in {"remove_line", "clear_lines", "update_quantity"}
    /\ line_count(order) >= 1

\* C4: pay() on a Pending order without lines raises EmptyOrderError and
\* leaves the status Pending and paid_at unset.
C4_PayEmptyFails ==
    [][(order.status = PENDING /\ order.lines = <<>> /\ last'.op = "pay") =>
          /\ last'.exc.type = "EmptyOrderError"
          /\ order'.status = PENDING
          /\ order'.paid_at = None]_vars

C4_Witness ==
    /\ last.op = "pay"
    /\ last.exc.type = "EmptyOrderError"
    /\ order.status = PENDING
    /\ order.lines = <<>>

\* the status of the order the repository holds for order_id (the repository
\* holds a reference to the Order object o), None when it holds none
StoredStatus(r, o, order_id) ==
    IF get_by_id(r, order_id) = o.id THEN o.status ELSE None

\* the charges the gateway recorded for order_id
ChargesFor(g, order_id) ==
    {i \in 1..Len(g.transactions) : g.transactions[i].order_id = order_id}

\* C5: when execute runs on a stored non-empty Pending order and charge
\* raises, the result is a failure with an error and the stored order is
\* still Pending.
C5_ChargeFailureKeepsPending ==
    [][(/\ last'.op = "execute"
        /\ StoredStatus(repo, order, last'.result.order_id) = PENDING
        /\ order.lines # <<>>
        /\ MadeAndRaised(last', "charge")) =>
          /\ last'.result.success = FALSE
          /\ last'.result.error # None
          /\ StoredStatus(repo', order', last'.result.order_id) = PENDING]_vars

\* C6: when execute runs on a stored non-empty Pending order and charge
\* returns, the result is a success carrying the transaction id the gateway
\* recorded for this charge and no error, and the stored order is Paid.
C6_ChargeSuccessPays ==
    [][(/\ last'.op = "execute"
        /\ StoredStatus(repo, order, last'.result.order_id) = PENDING
        /\ order.lines # <<>>
        /\ MadeAndReturned(last', "charge")) =>
          /\ last'.result.success = TRUE
          /\ Len(gateway'.transactions) = Len(gateway.transactions) + 1
          /\ last'.result.transaction_id =
                 gateway'.transactions[Len(gateway'.transactions)].transaction_id
          /\ last'.result.error = None
          /\ StoredStatus(repo', order', last'.result.order_id) = PAID]_vars

C6_Witness ==
    /\ last.op = "execute"
    /\ last.result.success = TRUE
    /\ last.result.transaction_id \in TxnIds
    /\ StoredStatus(repo, order, last.result.order_id) = PAID

\* C7: the gateway records at most one charge per order id; an execute
\* returns success only by recording a charge; and once a charge is recorded
\* for an id every later execute on it fails with "Order is already paid".
C7_AtMostOneSuccess ==
    /\ [](\A id \in OrderIds : Cardinality(ChargesFor(gateway, id)) <= 1)
    /\ [][last'.op = "execute" =>
             /\ last'.result.success =>
                    /\ ChargesFor(gateway, last'.result.order_id) = {}
                    /\ ChargesFor(gateway', last'.result.order_id) # {}
             /\ ChargesFor(gateway, last'.result.order_id) # {} =>
                    /\ last'.result.success = FALSE
                    /\ last'.result.error = "Order is already paid"
                    /\ gateway' = gateway]_vars

C7_Witness ==
    /\ last.op = "execute"
    /\ last.result.success = FALSE
    /\ last.result.error = "Order is already paid"
    /\ ChargesFor(gateway, last.result.order_id) # {}

\* C8: when order.pay() raises inside execute, the result is a failure whose
\* error is the exception's message, neither charge nor save is called, the
\* gateway and the repository are unchanged and a Pending order stays Pending.
C8_DomainErrorStops ==
    [][(/\ last'.op = "execute"
        /\ last'.result.order_id \in DOMAIN repo
        /\ pay(order).exc # NoExc) =>
          /\ pay(order).exc.msg \in {"Cannot pay empty order",
                                     "Order is already paid"}
          /\ last'.result = PaymentResult(FALSE, last'.result.order_id, None,
                                          pay(order).exc.msg)
          /\ ~Made(last', "charge")
          /\ ~Made(last', "save")
          /\ gateway' = gateway
          /\ repo' = repo
          /\ order.status = PENDING => order'.status = PENDING]_vars

C8_Witness ==
    /\ last.op = "execute"
    /\ last.caught.type = "EmptyOrderError"
    /\ last.result.error = "Cannot pay empty order"
    /\ StoredStatus(repo, order, last.result.order_id) = PENDING

\* C9: execute on an id the repository does not hold returns a failure with
\* that id, no transaction id and the error "Order {id} not found"; nothing
\* is raised or caught, the gateway and the repository are not touched.
C9_NotFound ==
    [][(last'.op = "execute" /\ last'.result.order_id \notin DOMAIN repo) =>
          /\ \E id \in OrderIds :
                 /\ last'.result.order_id = id
                 /\ last'.result.error = "Order " \o id \o " not found"
          /\ last'.result.success = FALSE
          /\ last'.result.transaction_id = None
          /\ last'.exc = NoExc
          /\ last'.caught = NoExc
          /\ ~Made(last', "pay")
          /\ ~Made(last', "charge")
          /\ ~Made(last', "save")
          /\ gateway' = gateway
          /\ repo' = repo
          /\ order' = order]_vars

C9_Witness ==
    /\ last.op = "execute"
    /\ last.result.order_id \notin DOMAIN repo
    /\ last.result.error = "Order o2 not found"

\* C10: an execute makes exactly one get_by_id, first; at most one charge,
\* after a pay() that returned; at most one save, after a charge that
\* returned; and it changes the gateway only by a charge and the repository
\* only by a save.
C10_CallOrder ==
    /\ [](last.op = "execute" =>
             /\ Cardinality(CallOf(last, "get_by_id")) = 1
             /\ last.calls[1].call = "get_by_id"
             /\ Cardinality(CallOf(last, "charge")) <= 1
             /\ Cardinality(CallOf(last, "save")) <= 1
             /\ \A i \in CallOf(last, "charge") :
                    \E j \in 2..(i - 1) : last.calls[j] = Returned("pay")
             /\ \A i \in CallOf(last, "save") :
                    \E j \in 1..(i - 1) : last.calls[j] = Returned("charge"))
    /\ [][last'.op = "execute" =>
             /\ gateway' # gateway => Made(last', "charge")
             /\ MadeAndReturned(last', "charge") =>
                    Len(gateway'.transactions) = Len(gateway.transactions) + 1
             /\ MadeAndRaised(last', "charge") => ~Made(last', "save")
             /\ repo' # repo => Made(last', "save")]_vars

C10_Witness ==
    /\ last.op = "execute"
    /\ Len(last.calls) = 5
    /\ last.calls[4] = Returned("charge")
    /\ last.calls[5] = Returned("save")

\* C11: execute raises nothing; its result is either a success with a
\* transaction id and no error, or a failure with a non-empty error and no
\* transaction id; the error of a failed charge is the gateway's message
\* behind "Payment processing error: ", the error of a domain exception is
\* the exception's message alone.
C11_AlwaysAResult ==
    last.op = "execute" =>
        /\ last.exc = NoExc
        /\ \/ /\ last.result.success = TRUE
              /\ last.result.transaction_id # None
              /\ last.result.error = None
           \/ /\ last.result.success = FALSE
              /\ last.result.transaction_id = None
              /\ last.result.error \notin {None, ""}
        /\ MadeAndRaised(last, "charge") =>
               last.result.error =
                   "Payment processing error: " \o last.caught.msg
        /\ IsDomainException(last.caught) =>
               /\ last.result.error = last.caught.msg
               /\ last.result.error \in {"Cannot pay empty order",
                                         "Order is already paid"}

C11_Witness ==
    /\ last.op = "execute"
    /\ MadeAndRaised(last, "charge")
    /\ last.result.success = FALSE
    /\ last.result.error = "Payment processing error: Payment gateway declined transaction for order o1"

RECURSIVE LineSum(_)
\* the sum over the lines of unit price times quantity
LineSum(ls) ==
    IF ls = <<>> THEN 0
    ELSE ls[1].price.amount * ls[1].quantity + LineSum(Tail(ls))

SameCurrency(ls) ==
    \A i, j \in 1..Len(ls) : ls[i].price.currency = ls[j].price.currency

\* the same lines in every order of insertion
Reorderings(ls) ==
    {[i \in 1..Len(ls) |-> ls[f[i]]] : f \in Permutations(1..Len(ls))}

\* C12: for an order whose lines share one currency (the sum of Money values
\* is only defined within a currency), total returns the sum over the lines
\* of unit price times quantity, 0 without lines, and returns the same for
\* the same lines in any order.
C12_TotalIsSum ==
    SameCurrency(order.lines) =>
        /\ total(order).exc = NoExc
        /\ total(order).val.amount = LineSum(order.lines)
        /\ \A ls \in Reorderings(order.lines) :
               total([order EXCEPT !.lines = ls]) = total(order)

\* C13: when execute calls charge, it passes the requested order id and, as
\* the amount, the sum over the order's lines of unit price times quantity in
\* the lines' currency; a charge that returns records that amount.
C13_ChargedAmountIsTotal ==
    last.op = "execute" =>
        /\ Made(last, "charge") <=> Len(last.charged) = 1
        /\ \A i \in 1..Len(last.charged) :
               /\ last.charged[i].order_id = last.result.order_id
               /\ last.charged[i].amount.amount = LineSum(order.lines)
               /\ last.charged[i].amount.currency =
                      order.lines[1].price.currency
               /\ MadeAndReturned(last, "charge") =>
                      gateway.transactions[Len(gateway.transactions)].amount
                          = last.charged[i].amount

C13_Witness ==
    /\ last.op = "execute"
    /\ Len(last.charged) = 1
    /\ Len(order.lines) = 1
    /\ order.lines[1].quantity = 2
    /\ last.charged[1].amount.amount = 2

\* C14: on a Pending order, add_line for a product id the order holds
\* succeeds, adds the quantity to that product's line and leaves every other
\* line and the number of lines as they were; add_line for a product id the
\* order does not hold appends exactly one line (that product, price and
\* quantity) behind the unchanged lines when the new line is valid, and
\* otherwise raises InvalidOrderLineError and appends nothing.
C14_AddLineMergesOrAppends ==
    order.status = PENDING =>
        \A product_id \in ProductIds, amount \in Amounts,
           currency \in Currencies, quantity \in Quantities :
            LET price == Money(amount, currency).val
                r == add_line(order, product_id, price, quantity)
                n == line_count(order)
            IN  IF \E i \in 1..n : order.lines[i].product_id = product_id
                THEN /\ r.exc = NoExc
                     /\ line_count(r.order) = n
                     /\ \A i \in 1..n :
                            /\ r.order.lines[i].product_id =
                                   order.lines[i].product_id
                            /\ r.order.lines[i].price = order.lines[i].price
                            /\ r.order.lines[i].quantity =
                                   IF order.lines[i].product_id = product_id
                                   THEN order.lines[i].quantity + quantity
                                   ELSE order.lines[i].quantity
                ELSE /\ r.exc = NoExc <=> (quantity > 0 /\ amount > 0)
                     /\ r.exc # NoExc =>
                            /\ r.exc.type = "InvalidOrderLineError"
                            /\ r.order.lines = order.lines
                     /\ r.exc = NoExc =>
                            /\ line_count(r.order) = n + 1
                            /\ SubSeq(r.order.lines, 1, n) = order.lines
                            /\ r.order.lines[n + 1].product_id = product_id
                            /\ r.order.lines[n + 1].price = price
                            /\ r.order.lines[n + 1].quantity = quantity

\* add_line has just merged 1 into a line of quantity 1
C14_Witness ==
    /\ last.op = "add_line"
    /\ last.exc = NoExc
    /\ order.status = PENDING
    /\ order.version = 2
    /\ line_count(order) = 1
    /\ order.lines[1].quantity = 2

\* C15: on a Pending order, update_quantity(product_id, 0) removes the line
\* of a product the order holds, so that the number of lines drops by exactly
\* one and the other lines stay; for a product the order does not hold it
\* raises "Product {id} not found in order" and changes nothing.
C15_UpdateToZeroRemoves ==
    order.status = PENDING =>
        \A product_id \in ProductIds :
            LET r == update_quantity(order, product_id, 0)
                n == line_count(order)
            IN  IF \E i \in 1..n : order.lines[i].product_id = product_id
                THEN /\ r.exc = NoExc
                     /\ line_count(r.order) = n - 1
                     /\ \A j \in 1..line_count(r.order) :
                            r.order.lines[j].product_id # product_id
                     /\ \A i \in 1..n :
                            order.lines[i].product_id # product_id =>
                                \E j \in 1..line_count(r.order) :
                                    r.order.lines[j] = order.lines[i]
                ELSE /\ r.exc.type = "ValueError"
                     /\ r.exc.msg =
                            "Product " \o product_id \o " not found in order"
                     /\ r.order = order

\* update_quantity(id, 0) has just removed the only line
C15_Witness ==
    /\ last.op = "update_quantity"
    /\ last.exc = NoExc
    /\ order.status = PENDING
    /\ order.lines = <<>>

LineMutators == {"add_line", "remove_line", "update_quantity", "clear_lines"}

\* C17: on a Cancelled order add_line, remove_line, update_quantity and
\* clear_lines raise OrderCannotBeModifiedError and leave the lines as they
\* were.
C17_CancelledOrderIsFrozen ==
    [][(order.status = CANCELLED /\ last'.op \in LineMutators) =>
          /\ last'.exc.type = "OrderCannotBeModifiedError"
          /\ order'.lines = order.lines]_vars

\* C18: an execute call turns the stored order Paid only if the gateway
\* returned (and recorded) a transaction for that order: after an execute
\* that made a stored, not yet Paid order Paid, the gateway holds a charge
\* for it.
C18_PaidOnlyIfCharged ==
    [][(/\ last'.op = "execute"
        /\ StoredStatus(repo, order, last'.result.order_id) # PAID
        /\ StoredStatus(repo', order', last'.result.order_id) = PAID) =>
          ChargesFor(gateway', last'.result.order_id) # {}]_vars

OrderOperations == {"add_line", "remove_line", "update_quantity",
                    "clear_lines", "pay", "cancel"}

\* C19: the revision counter (_version) grows by exactly one on every
\* successful add_line, update_quantity, clear_lines, pay and cancel and on
\* every remove_line that removes a line; a remove_line that matches nothing
\* and every operation that raises leave it unchanged; it never decreases.
C19_RevisionCountsMutations ==
    [][/\ order'.version >= order.version
       /\ last'.op \in OrderOperations =>
            IF last'.exc # NoExc
            THEN order'.version = order.version
            ELSE IF last'.op = "remove_line" /\ order'.lines = order.lines
            THEN order'.version = order.version
            ELSE order'.version = order.version + 1]_vars

\* C20: every line of the order has a positive quantity and a positive unit
\* price, whatever add_line, remove_line, update_quantity and clear_lines
\* calls were made.
C20_LinesArePositive ==
    \A i \in 1..Len(order.lines) :
        /\ order.lines[i].quantity > 0
        /\ order.lines[i].price.amount > 0

\* the positions of the lines of ls that are not for product_id
OtherLines(ls, product_id) ==
    {i \in 1..Len(ls) : ls[i].product_id # product_id}

\* kept holds exactly the lines of ls at the positions in keep, in the order
\* they have in ls
KeepsInOrder(ls, keep, kept) ==
    /\ Len(kept) = Cardinality(keep)
    /\ \E f \in [1..Len(kept) -> keep] :
           /\ \A j \in 1..Len(kept) : kept[j] = ls[f[j]]
           /\ \A j, k \in 1..Len(kept) : j < k => f[j] < f[k]

\* C21: on a Pending order remove_line(product_id) raises nothing, removes
\* exactly the lines of that product and keeps every other line with its
\* content and relative order, and leaves status and paid_at alone; when no
\* line matches, the whole order (lines, status, revision) stays as it was.
C21_RemoveLineRemovesExactly ==
    order.status = PENDING =>
        \A product_id \in ProductIds :
            LET r == remove_line(order, product_id)
                keep == OtherLines(order.lines, product_id)
            IN  /\ r.exc = NoExc
                /\ KeepsInOrder(order.lines, keep, r.order.lines)
                /\ r.order.status = order.status
                /\ r.order.paid_at = order.paid_at
                /\ r.order.id = order.id
                /\ keep = DOMAIN order.lines => r.order = order

\* remove_line has just removed the first of two lines
C21_Witness ==
    /\ last.op = "remove_line"
    /\ last.exc = NoExc
    /\ order.status = PENDING
    /\ order.version = 3
    /\ line_count(order) = 1
    /\ order.lines[1].product_id = "p2"

\* C22: no two lines of the order are for the same product id.
C22_OneLinePerProduct ==
    \A i, j \in 1..Len(order.lines) :
        i # j => order.lines[i].product_id # order.lines[j].product_id

\* add_line has just merged into one of two lines
C22_Witness ==
    /\ last.op = "add_line"
    /\ last.exc = NoExc
    /\ line_count(order) = 2
    /\ order.version = 3
    /\ \E i \in 1..2 : order.lines[i].quantity = 2

\* C23: an Order operation that raises (add_line with an invalid new line,
\* update_quantity on an unknown product, pay on an empty or already paid
\* order, a mutation rejected by the modifiability guard) leaves the order's
\* lines, status, paid_at and revision as they were before the call.
C23_FailedOperationChangesNothing ==
    [][(last'.op \in OrderOperations /\ last'.exc # NoExc) =>
          /\ order'.lines = order.lines
          /\ order'.status = order.status
          /\ order'.paid_at = order.paid_at
          /\ order'.version = order.version]_vars

\* add_line with an invalid new line has just failed on an order that holds
\* a line
C23_Witness ==
    /\ last.op = "add_line"
    /\ last.exc.type = "InvalidOrderLineError"
    /\ order.status = PENDING
    /\ line_count(order) = 1

\* C24: paid_at is set exactly when the status is Paid: it is unset on
\* creation and after a cancel, and a successful pay() sets it.
C24_PaidAtIffPaid ==
    /\ order.paid_at # None <=> order.status = PAID
    /\ last.op = "new" => order.paid_at = None
    /\ (last.op = "cancel" /\ last.exc = NoExc) => order.paid_at = None
    /\ (last.op = "pay" /\ last.exc = NoExc) => order.paid_at = Now

\* a direct pay() has just succeeded and set paid_at
C24_Witness ==
    /\ last.op = "pay"
    /\ last.exc = NoExc
    /\ order.status = PAID
    /\ order.paid_at = Now

====
